---- MODULE Spec2Model ----
(***************************************************************************)
(* Model of the Teams SSO bot (src/src/agent.py): the activity handler     *)
(* TeamsSsoAgent with its tenant gate, sign-in invokes, reset commands and *)
(* the relay to the Azure AI Foundry agent service.                        *)
(*                                                                         *)
(* Every inbound activity is one task (a turn).  A task runs from one      *)
(* await of the handler to the next as one atomic step, the way the        *)
(* asyncio event loop runs it; tasks interleave only at those awaits.  The *)
(* Foundry SDK calls are synchronous, so they lie inside a step.           *)
(*                                                                         *)
(* Environment: every Foundry call may raise; the token lookup of a message *)
(* turn may raise (the Credential Gateway cannot be reached); the other    *)
(* Credential Gateway calls answer, with or without a token, and           *)
(* send_activity delivers what it is given.                                *)
(***************************************************************************)
EXTENDS Integers, Sequences, FiniteSets, TLC

(***************************************************************************)
(* Bounds of the model.                                                    *)
(***************************************************************************)
\* Number of turns (inbound activities) the bot receives in a behaviour.
MaxTurns == 3

\* Task slots: at most this many turns are in flight at once.
Tasks == {"t1", "t2"}

(***************************************************************************)
(* Python values.                                                          *)
(***************************************************************************)
\* Python's None, for the string-valued fields that may be absent.
None == "<None>"

\* Truthiness of an optional string: None and "" are falsy.
Truthy(x) == x # None /\ x # ""

\* Python's `a or b` on optional strings.
PyOr(a, b) == IF Truthy(a) THEN a ELSE b

(***************************************************************************)
(* Strings are sequences of one-character strings, so that str.strip() and *)
(* str.lower() are computed and not assumed.                               *)
(***************************************************************************)
Whitespace == {" ", "\t", "\n"}

\* str.lower() on one character (the letters the sample texts use).
LowerChar(c) ==
  CASE c = "R" -> "r" [] c = "E" -> "e" [] c = "S" -> "s" [] c = "T" -> "t"
    [] c = "C" -> "c" [] c = "L" -> "l" [] c = "A" -> "a" [] c = "N" -> "n"
    [] c = "W" -> "w" [] c = "H" -> "h" [] c = "O" -> "o"
    [] OTHER -> c

\* str.lower()
Lower(s) == [i \in 1..Len(s) |-> LowerChar(s[i])]

RECURSIVE LStrip(_)
LStrip(s) == IF s # <<>> /\ Head(s) \in Whitespace THEN LStrip(Tail(s)) ELSE s

RECURSIVE RStrip(_)
RStrip(s) ==
  IF s # <<>> /\ s[Len(s)] \in Whitespace
  THEN RStrip(SubSeq(s, 1, Len(s) - 1))
  ELSE s

\* str.strip()
Strip(s) == RStrip(LStrip(s))

\* The list literal ["/reset", "/clear", "/new"] of on_message_activity.
ResetCommands ==
  { <<"/", "r", "e", "s", "e", "t">>,
    <<"/", "c", "l", "e", "a", "r">>,
    <<"/", "n", "e", "w">> }

\* Mutant: the text is compared without lower-casing.
IsResetCommand_NoLower(text) == Strip(text) \in ResetCommands

\* user_message_lower in ["/reset", "/clear", "/new"]
IsResetCommand(text) == Lower(Strip(text)) \in ResetCommands

(***************************************************************************)
(* Inputs: what an inbound activity may carry.                             *)
(***************************************************************************)
\* turn_context.activity.conversation.id
Convs == {"c1", "c2"}

\* turn_context.activity.conversation.tenant_id (getattr(..., None)).
TenantIds == {None, "", "T1", "T2"}

\* settings.allowed_tenants as build_settings produces it: no empty entries.
AllowLists == { {}, {"T1"}, {"T1", "T3"} }

\* settings.oauth_connection_name
OAuthConnectionName == "sso"

\* turn_context.activity.text of a message activity.
Texts ==
  { <<"/", "r", "e", "s", "e", "t">>,
    <<" ", "/", "R", "e", "s", "e", "t", "\n">>,
    <<"/", "C", "L", "E", "A", "R">>,
    <<"\t", "/", "n", "e", "w", " ">>,
    <<"/", "n", "e", " ", "w">>,
    <<"/", "r", "e", "s", "e", "t", "s">>,
    <<"r", "e", "s", "e", "t">>,
    <<"h", "e", "l", "l", "o">>,
    <<>> }

\* TokenExchangeInvokeRequest(**activity.value): id and connection_name.
ExchangeRequests ==
  [id : {"req1", "req2"}, connection_name : {None, "other"}]

\* activity.value of a verify-state invoke: absent, without "state", or
\* carrying a magic code.
VerifyValues ==
  { [present |-> FALSE, state |-> None],
    [present |-> TRUE, state |-> None],
    [present |-> TRUE, state |-> "123456"] }

\* activity.name of a sign-in invoke that is neither of the two the handler
\* knows.
TokenExchangeName == "signin/tokenExchange"

VerifyStateName == "signin/verifyState"

OtherInvokeNames == {"signin/failure", None}

\* turn_context.activity.recipient.id: the bot itself.
BotId == "bot"

\* The ids of activity.members_added of a conversation update.
MemberLists == { <<"bot">>, <<"u1">>, <<"u1", "bot", "u2">> }

\* What get_token / exchange_token return: no response, a response with an
\* empty token, a response with a token.
NoResponse == [present |-> FALSE, token |-> None]

TokenResponses ==
  { NoResponse,
    [present |-> TRUE, token |-> ""],
    [present |-> TRUE, token |-> "jwt"] }

(***************************************************************************)
(* State.                                                                  *)
(***************************************************************************)
VARIABLES
  allowed_tenants,       \* self._settings.allowed_tenants
  conversation_threads,  \* self._conversation_threads: conversation id -> thread id
  remote_threads,        \* thread ids alive at the AI Foundry service
  thread_messages,       \* thread id -> the messages a listing can still stop at
  threads_created,       \* number of thread ids the service has issued
  tasks,                 \* the turn running in each task slot
  activity,              \* what the last step read of its inbound activity
  turns,                 \* number of inbound activities received
  ever_authed,           \* history: some turn has seen a token
  startup                \* the process from main() on: environment, outcome

vars ==
  << allowed_tenants, conversation_threads, remote_threads, thread_messages,
     threads_created, tasks, activity, turns, ever_authed, startup >>

\* What the turns of the bot work on; startup leaves it alone.
bot_vars ==
  << allowed_tenants, conversation_threads, remote_threads, thread_messages,
     threads_created, tasks, activity, turns, ever_authed >>

NoRequest == [id |-> None, connection_name |-> None]

NoValue == [present |-> FALSE, state |-> None]

NoBody == [present |-> FALSE, id |-> None, connectionName |-> None]

\* A task slot that holds no turn.  A turn keeps what the handler keeps
\* across its awaits, and the record of what it did: the activities sent,
\* the Credential Gateway calls (gw), the Foundry calls (ai) and how they
\* went (outcome), the number of changes it made to the session store
\* (writes), whether an earlier turn had seen a token when its own lookup
\* found none (authed_before), and how the handler ends (status: "ok" for
\* a normal return, "raised", the HTTP status of an invoke, or "super" for
\* what the base class answers).  A sign-in invoke keeps its activity name,
\* a members-added turn its list of members and its place in it.  A relay
\* turn keeps the thread id it works on (thread_id, 0 for none) and the
\* places in that thread of the user message it added (asked) and of the
\* message whose text it sends as the reply (replied), 0 for none.
IdleTask ==
  [ pc |-> "idle", kind |-> "none", conv |-> "c1", request |-> NoRequest,
    name |-> None, members |-> <<>>, member |-> 0,
    thread_id |-> 0, asked |-> 0, replied |-> 0,
    gate |-> "unchecked", tok |-> NoResponse, path |-> "none",
    sent |-> <<>>, gw |-> <<>>, ai |-> <<>>, writes |-> 0,
    outcome |-> "none", authed_before |-> FALSE,
    status |-> "none", body |-> NoBody ]

\* The fields of turn_context.activity a step read.  The handler reads the
\* tenant id only in _validate_tenant, the text only after the token
\* lookup, an invoke's value only on arrival; each is drawn where it is
\* read and is recorded here for the step that read it.
Read(t, field, tenant_id, text, value) ==
  [ task |-> t, field |-> field, tenant_id |-> tenant_id, text |-> text,
    value |-> value ]

\* A step that reads nothing of the activity.
ReadNothing == Read("none", "none", None, <<>>, NoValue)

(***************************************************************************)
(* The handler's pure parts.                                               *)
(***************************************************************************)
\* Mutant: a turn without a tenant id is denied when an allowlist is set.
validate_tenant_DenyAbsent(allowed, tenant_id) ==
  allowed = {} \/ tenant_id \in allowed

\* _validate_tenant: TRUE when the turn may go on.
validate_tenant(allowed, tenant_id) ==
  IF allowed = {}
  THEN TRUE
  ELSE IF Truthy(tenant_id) /\ tenant_id \notin allowed
       THEN FALSE
       ELSE TRUE

\* Mutant: a response object is enough, its token is not looked at.
HasToken_AnyResponse(resp) == resp.present

\* `token_response and token_response.token`
HasToken(resp) == resp.present /\ Truthy(resp.token)

\* Mutant: a turn of an already signed-in user skips the token check.
Authenticated_Remembered(resp, earlier) == HasToken(resp) \/ earlier

\* The condition of on_message_activity that lets a message through to the
\* reset command or the relay: only this turn's token response counts,
\* not whether an earlier turn was signed in.
Authenticated(resp, earlier) == HasToken(resp)

\* (activity.value or {}).get("state")
magic_code(value) == IF value.present THEN value.state ELSE None

\* Mutant: the response always names the configured connection.
exchange_connection_Configured(request) == OAuthConnectionName

\* request.connection_name or self._settings.oauth_connection_name
exchange_connection(request) ==
  PyOr(request.connection_name, OAuthConnectionName)

\* _handle_token_exchange: the dict it returns, or None (NoBody).
handle_token_exchange(request, resp) ==
  IF HasToken(resp)
  THEN [ present |-> TRUE, id |-> request.id,
         connectionName |-> exchange_connection(request) ]
  ELSE NoBody

\* Mutant: a failed verification is answered like a failed exchange.
verify_state_status_412(resp) == IF HasToken(resp) THEN "200" ELSE "412"

\* The verify-state branch of on_sign_in_invoke: 200 or BAD_REQUEST.
verify_state_status(resp) == IF HasToken(resp) THEN "200" ELSE "400"

\* Mutant: every name but token-exchange is taken as verify-state.
sign_in_invoke_route_VerifyElse(name) ==
  IF name = TokenExchangeName THEN "exchange" ELSE "verify"

\* The branches of on_sign_in_invoke on activity.name.
sign_in_invoke_route(name) ==
  IF name = TokenExchangeName THEN "exchange"
  ELSE IF name = VerifyStateName THEN "verify"
  ELSE "super"

\* Mutant: the bot welcomes itself too.
IsWelcomed_Everyone(member, recipient) == TRUE

\* member.id != turn_context.activity.recipient.id
IsWelcomed(member, recipient) == member # recipient

\* The for loop of on_members_added_activity from the i-th member on: the
\* index of the next member that is sent the welcome, or Len + 1.
RECURSIVE NextWelcome(_, _)
NextWelcome(members, i) ==
  IF i > Len(members) THEN i
  ELSE IF IsWelcomed(members[i], BotId) THEN i
  ELSE NextWelcome(members, i + 1)

(***************************************************************************)
(* The session store and the AI Foundry calls.                             *)
(***************************************************************************)
\* Mutant: the deletion empties the store.
DelKey_Clear(store, conv) == [c \in {} |-> store[c]]

\* del self._conversation_threads[conversation_id]
DelKey(store, conv) == [c \in (DOMAIN store) \ {conv} |-> store[c]]

\* How the Foundry calls of one relay turn go: the call that raises, if
\* one does, else the status the run ends in and, for a run that did not
\* fail, what it leaves in the thread: an assistant message with a text,
\* an assistant message without a text content, or no message.
RelayOutcomes ==
  { "create_raises", "add_raises", "run_raises", "run_failed",
    "list_raises", "text", "no_text", "no_message" }

\* The messages of a thread: the role and the text of the content, None
\* for a content without text.
UserMessage == [role |-> "user", text |-> "q"]

AssistantText == [role |-> "assistant", text |-> "r"]

AssistantNoText == [role |-> "assistant", text |-> None]

\* What runs.create_and_process leaves in the thread.  A run whose
\* messages cannot be listed afterwards has answered.
RunMessages(o) ==
  IF o \in {"text", "list_raises"} THEN <<AssistantText>>
  ELSE IF o = "no_text" THEN <<AssistantNoText>>
  ELSE <<>>

\* The messages of a thread the service knows, none for any other id.
MessagesOf(threads, id) ==
  IF id \in DOMAIN threads THEN threads[id] ELSE <<>>

\* messages.list(thread_id=...): the newest message first.
messages_list(msgs) == [i \in 1..Len(msgs) |-> msgs[Len(msgs) + 1 - i]]

\* The loop over the listed messages from the i-th on: the index of the
\* first message of role assistant with a non-empty text, 0 when there is
\* none.
RECURSIVE first_assistant_text(_, _)
first_assistant_text(messages, i) ==
  IF i > Len(messages) THEN 0
  ELSE IF messages[i].role = "assistant" /\ Truthy(messages[i].text) THEN i
  ELSE first_assistant_text(messages, i + 1)

\* Mutant: the handler lets the exception out of the turn.
relay_except_Propagate(store, ai) ==
  [ store |-> store, ai |-> ai, send |-> <<>>, status |-> "raised" ]

\* Mutant: the except clause forgets the sessions it holds.
relay_except_Clear(store, ai) ==
  [ store |-> [c \in {} |-> 0], ai |-> ai, send |-> <<"apology">>,
    status |-> "ok" ]

\* The `except Exception` clause of _process_message_with_agent: the
\* apology is sent, nothing is raised, nothing is called again.
relay_except(store, ai) ==
  [ store |-> store, ai |-> ai, send |-> <<"apology">>, status |-> "ok" ]

\* Mutant: every relay turn creates a thread.
needs_thread_Always(store, conv) == TRUE

\* `conversation_id not in self._conversation_threads`
needs_thread(store, conv) == conv \notin DOMAIN store

\* Mutant: the status of the run is not looked at.
run_failed_Never(o) == FALSE

\* `run.status == "failed"`
run_failed(o) == o = "run_failed"

\* What the service keeps of a thread for the listings to come.  The loop
\* over a listing skips the user messages and the assistant messages
\* without a text and stops at the newest assistant message with a text:
\* nothing else of a thread is ever read again, so only that message is
\* kept.
Kept(msgs) ==
  LET found == first_assistant_text(messages_list(msgs), 1)
  IN  IF found = 0 THEN <<>> ELSE <<messages_list(msgs)[found]>>

\* The result of _process_message_with_agent: what the handler did (r:
\* store, calls, activity sent, status), the threads afterwards, the
\* thread it worked on, and the places in it of the message it added and
\* of the message it replied with.
Relayed(r, threads, thread_id, asked, replied) ==
  [ store |-> r.store, ai |-> r.ai, send |-> r.send, status |-> r.status,
    threads |-> threads, thread_id |-> thread_id, asked |-> asked,
    replied |-> replied ]

\* _process_message_with_agent from the `try` to the send_activity it ends
\* in: the store and the threads afterwards, the Foundry calls made, the
\* activity sent.
process_message_with_agent(store, conv, fresh, o, threads) ==
  LET create == needs_thread(store, conv)
      ai1    == IF create THEN <<"threads.create">> ELSE <<>>
      store1 == IF create THEN (conv :> fresh) @@ store ELSE store
      thread_id == store1[conv]
      before == IF create THEN <<>> ELSE MessagesOf(threads, thread_id)
      threads1 == IF create THEN (fresh :> <<>>) @@ threads ELSE threads
      ai2    == ai1 \o <<"messages.create">>
      asked  == Len(before) + 1
      ai3    == ai2 \o <<"runs.create_and_process">>
      after  == Append(before, UserMessage) \o RunMessages(o)
      threads3 == (thread_id :> Kept(after)) @@ threads1
      ai4    == ai3 \o <<"messages.list">>
      messages == messages_list(after)
      found  == first_assistant_text(messages, 1)
      replied == IF found = 0 THEN 0 ELSE Len(messages) + 1 - found
  IN  IF create /\ o = "create_raises"
        THEN Relayed(relay_except(store, ai1), threads, 0, 0, 0)
      ELSE IF o = "add_raises"
        THEN Relayed(relay_except(store1, ai2), threads1, thread_id, 0, 0)
      ELSE IF o = "run_raises"
        THEN Relayed(relay_except(store1, ai3), threads3, thread_id, asked, 0)
      ELSE IF run_failed(o)
        THEN Relayed([ store |-> store1, ai |-> ai3,
                       send |-> <<"run_failed">>, status |-> "ok" ],
                     threads3, thread_id, asked, 0)
      ELSE IF o = "list_raises"
        THEN Relayed(relay_except(store1, ai4), threads3, thread_id, asked, 0)
      ELSE IF found # 0
        THEN Relayed([ store |-> store1, ai |-> ai4,
                       send |-> <<"response">>, status |-> "ok" ],
                     threads3, thread_id, asked, replied)
        ELSE Relayed([ store |-> store1, ai |-> ai4,
                       send |-> <<"no_response">>, status |-> "ok" ],
                     threads3, thread_id, asked, 0)

\* Mutant: the entry is deleted whether or not threads.delete returned.
reset_store_EvictAnyway(store, conv, deleted) == DelKey(store, conv)

\* Mutant: a reset puts a new handle in place of the old one at once.
reset_store_Recreate(store, conv, deleted) ==
  (conv :> 0) @@ DelKey(store, conv)

\* The reset branch of on_message_activity on a conversation that has a
\* thread: the entry is deleted only when threads.delete returned.
reset_store(store, conv, deleted) ==
  IF deleted THEN DelKey(store, conv) ELSE store

(***************************************************************************)
(* Startup: main(), build_settings() and create_app().  A value of the    *)
(* environment is unset or a string (a sequence of characters).            *)
(***************************************************************************)
Unset == [set |-> FALSE, val |-> <<>>]

Str(s) == [set |-> TRUE, val |-> s]

\* The environments a process is started in.
Environments ==
  [ PORT : {Unset, Str(<<>>), Str(<<"8", "0">>), Str(<<"a">>)},
    BOTSERVICE_APP_ID : {Unset, Str(<<>>), Str(<<" ">>), Str(<<"i", " ">>)},
    MicrosoftAppId : {Unset, Str(<<"j">>)},
    OAUTH_CONNECTION_NAME : {Unset, Str(<<>>), Str(<<" ">>), Str(<<"s">>)},
    AZUREBOTOAUTHCONNECTIONNAME : {Unset, Str(<<"o">>)},
    AZURE_OPENAI_ENDPOINT : {Unset, Str(<<>>), Str(<<" ">>), Str(<<"e">>)},
    AZURE_OPENAI_API_KEY : {Unset, Str(<<>>), Str(<<"k">>)},
    AZURE_OPENAI_DEPLOYMENT_NAME : {Unset, Str(<<>>), Str(<<"d">>)} ]

\* An environment with every required variable set.
CompleteEnv ==
  [ PORT |-> Unset,
    BOTSERVICE_APP_ID |-> Str(<<"i", " ">>),
    MicrosoftAppId |-> Unset,
    OAUTH_CONNECTION_NAME |-> Str(<<"s">>),
    AZUREBOTOAUTHCONNECTIONNAME |-> Unset,
    AZURE_OPENAI_ENDPOINT |-> Str(<<"e">>),
    AZURE_OPENAI_API_KEY |-> Str(<<"k">>),
    AZURE_OPENAI_DEPLOYMENT_NAME |-> Str(<<"d">>) ]

\* os.getenv(name, default)
getenv(environ, name, default) ==
  IF environ[name].set THEN environ[name] ELSE default

\* Mutant: only a variable that is not set counts as not defined.
IsFalsy_OnlyUnset(value) == ~value.set

\* `not value` for an optional string: None and "" are falsy.
IsFalsy(value) == ~value.set \/ value.val = <<>>

\* _env(*names): the stripped value of the first name that has a non-empty
\* value, else None.
RECURSIVE env(_, _)
env(environ, names) ==
  IF names = <<>> THEN Unset
  ELSE LET value == getenv(environ, Head(names), Unset)
       IN  IF ~IsFalsy(value) THEN Str(Strip(value.val))
           ELSE env(environ, Tail(names))

Digits == {"0", "1", "2", "3", "4", "5", "6", "7", "8", "9"}

\* Whether int(s) returns for the strings of the environments.
IsInt(s) == s # <<>> /\ \A i \in 1..Len(s) : s[i] \in Digits

\* The messages of the errors startup can end in.
AppIdError == "MicrosoftAppId is not defined"

ConnectionNameError == "OAUTH_CONNECTION_NAME is not defined"

EndpointError == "AZURE_OPENAI_ENDPOINT is not defined"

ApiKeyError == "AZURE_OPENAI_API_KEY is not defined"

DeploymentError == "AZURE_OPENAI_DEPLOYMENT_NAME is not defined"

PortError == "ValueError: invalid literal for int()"

AgentSettingsError == "TypeError: AgentSettings.__init__()"

Raised(error) == [raised |-> TRUE, error |-> error, settings |-> <<>>]

\* build_settings(): the BotSettings it returns or the error it raises.
build_settings(environ) ==
  LET port == getenv(environ, "PORT", Str(<<"8", "0", "0", "0">>))
      app_id == env(environ, <<"BOTSERVICE_APP_ID", "MicrosoftAppId">>)
      connection_name ==
        env(environ, <<"OAUTH_CONNECTION_NAME", "AZUREBOTOAUTHCONNECTIONNAME">>)
      azure_openai_endpoint == getenv(environ, "AZURE_OPENAI_ENDPOINT", Unset)
      azure_openai_api_key == getenv(environ, "AZURE_OPENAI_API_KEY", Unset)
      azure_openai_deployment_name ==
        getenv(environ, "AZURE_OPENAI_DEPLOYMENT_NAME", Unset)
  IN  IF ~IsInt(port.val) THEN Raised(PortError)
      ELSE IF IsFalsy(app_id) THEN Raised(AppIdError)
      ELSE IF IsFalsy(connection_name) THEN Raised(ConnectionNameError)
      ELSE IF IsFalsy(azure_openai_endpoint) THEN Raised(EndpointError)
      ELSE IF IsFalsy(azure_openai_api_key) THEN Raised(ApiKeyError)
      ELSE IF IsFalsy(azure_openai_deployment_name)
        THEN Raised(DeploymentError)
      ELSE [ raised |-> FALSE, error |-> None,
             settings |->
               [ app_id |-> app_id.val,
                 oauth_connection_name |-> connection_name.val,
                 azure_openai_endpoint |-> azure_openai_endpoint.val,
                 azure_openai_api_key |-> azure_openai_api_key.val,
                 azure_openai_deployment_name |->
                   azure_openai_deployment_name.val,
                 port |-> port.val ] ]

\* The fields the dataclass AgentSettings declares, none with a default.
AgentSettingsFields ==
  { "bot_app_id", "oauth_connection_name", "public_base_url",
    "foundry_project_endpoint", "foundry_agent_name", "allowed_tenants" }

\* The keyword arguments _build_agent calls AgentSettings with.
BuildAgentKeywords ==
  { "bot_app_id", "oauth_connection_name", "public_base_url",
    "azure_openai_endpoint", "azure_openai_api_key",
    "azure_openai_api_version", "azure_openai_deployment_name",
    "allowed_tenants" }

\* create_app(settings): the objects it has created when it returns or
\* raises.  The connection manager and the adapter come first; the
\* dataclass __init__ raises TypeError unless the keywords are its fields.
create_app(settings) ==
  IF BuildAgentKeywords = AgentSettingsFields
  THEN [ created |-> {"connection_manager", "adapter", "agent", "app"},
         error |-> None ]
  ELSE [ created |-> {"connection_manager", "adapter"},
         error |-> AgentSettingsError ]

\* The process on entry to main().
NotStarted(environ) ==
  [ pc |-> "main", environ |-> environ, settings |-> <<>>, error |-> None,
    created |-> {}, listening |-> FALSE ]

\* The process the turns of the bot run in: the handler is constructed and
\* the server listens.
Serving ==
  [ pc |-> "serving", environ |-> CompleteEnv, settings |-> <<>>,
    error |-> None,
    created |-> {"connection_manager", "adapter", "agent", "app"},
    listening |-> TRUE ]

\* main() is entered in some environment; no turn can arrive yet.
StartupInit ==
  /\ startup \in {NotStarted(environ) : environ \in Environments}
  /\ allowed_tenants = {}
  /\ conversation_threads = [c \in {} |-> 0]
  /\ remote_threads = {}
  /\ thread_messages = [id \in {} |-> <<>>]
  /\ threads_created = 0
  /\ tasks = [t \in Tasks |-> IdleTask]
  /\ activity = ReadNothing
  /\ turns = 0
  /\ ever_authed = FALSE

\* main() calls build_settings(); what it raises is logged and raised
\* again, and the process ends.
BuildSettings ==
  /\ startup.pc = "main"
  /\ LET r == build_settings(startup.environ)
     IN  startup' =
           IF r.raised
           THEN [startup EXCEPT !.pc = "failed", !.error = r.error]
           ELSE [startup EXCEPT !.pc = "built", !.settings = r.settings]
  /\ UNCHANGED bot_vars

\* main() calls create_app(settings) and then web.run_app(app).
StartServer ==
  /\ startup.pc = "built"
  /\ LET r == create_app(startup.settings)
     IN  startup' =
           IF r.error # None
           THEN [startup EXCEPT !.pc = "failed", !.error = r.error,
                                !.created = r.created]
           ELSE [startup EXCEPT !.pc = "serving", !.created = r.created,
                                !.listening = TRUE]
  /\ UNCHANGED bot_vars

StartupNext == BuildSettings \/ StartServer

SpecStartup == StartupInit /\ [][StartupNext]_vars

(***************************************************************************)
(* Initial state: TeamsSsoAgent.__init__ has run, no turn has arrived.     *)
(***************************************************************************)
Init ==
  /\ allowed_tenants \in AllowLists
  /\ conversation_threads = [c \in {} |-> 0]
  /\ remote_threads = {}
  /\ thread_messages = [id \in {} |-> <<>>]
  /\ threads_created = 0
  /\ tasks = [t \in Tasks |-> IdleTask]
  /\ activity = ReadNothing
  /\ turns = 0
  /\ ever_authed = FALSE
  /\ startup = Serving

\* A slot is free when it holds no turn.
Free(t) == tasks[t].pc = "idle"

\* The Foundry client is the synchronous AIProjectClient and its calls are
\* made directly in the coroutine: while one of them has not returned, the
\* thread of the event loop is inside it, so no coroutine is resumed and
\* no request is taken up.
EventLoopRuns == \A t \in Tasks : tasks[t].pc # "hung"

NewTask(kind, conv) ==
  [IdleTask EXCEPT !.kind = kind, !.conv = conv]

GatewayCall(op, arg) == [op |-> op, arg |-> arg]

(***************************************************************************)
(* on_message_activity                                                     *)
(***************************************************************************)
\* Mutant: the denial is sent but the handler does not return after it.
message_gate_NoReturn(task, allowed, tenant_id) ==
  IF validate_tenant(allowed, tenant_id)
  THEN [ task EXCEPT !.pc = "get_token", !.gate = "allowed",
                     !.gw = <<GatewayCall("get_token", None)>> ]
  ELSE [ task EXCEPT !.pc = "get_token", !.gate = "denied",
                     !.sent = <<"denial">>,
                     !.gw = <<GatewayCall("get_token", None)>> ]

\* The first lines of on_message_activity: a denied turn sends the denial
\* and returns, an allowed one goes on to _get_user_token.
message_gate(task, allowed, tenant_id) ==
  IF validate_tenant(allowed, tenant_id)
  THEN [ task EXCEPT !.pc = "get_token", !.gate = "allowed",
                     !.gw = <<GatewayCall("get_token", None)>> ]
  ELSE [ task EXCEPT !.pc = "send", !.gate = "denied", !.path = "denied",
                     !.sent = <<"denial">>, !.status = "ok" ]

\* A message activity arrives: _validate_tenant runs, and the turn either
\* sends the denial or awaits the token lookup of _get_user_token.
ReceiveMessage(t) ==
  /\ EventLoopRuns
  /\ UNCHANGED << startup, thread_messages >>
  /\ turns < MaxTurns
  /\ Free(t)
  /\ \E conv \in Convs, tenant \in TenantIds :
       /\ tasks' = [tasks EXCEPT ![t] =
            message_gate(NewTask("message", conv), allowed_tenants, tenant)]
       /\ activity' = Read(t, "tenant_id", tenant, <<>>, NoValue)
  /\ turns' = turns + 1
  /\ UNCHANGED << allowed_tenants, conversation_threads, remote_threads,
                  threads_created, ever_authed >>

\* The lookup returned no usable token: _send_sign_in_card asks the
\* gateway for the sign-in resource.
MessageSignIn(t) ==
  /\ EventLoopRuns
  /\ UNCHANGED << startup, thread_messages >>
  /\ tasks[t].pc = "get_token"
  /\ tasks[t].kind = "message"
  /\ \E resp \in TokenResponses :
       /\ ~Authenticated(resp, ever_authed)
       /\ tasks' = [tasks EXCEPT ![t] =
            [ @ EXCEPT !.pc = "sign_in_resource", !.tok = resp,
                       !.path = "sign_in", !.authed_before = ever_authed,
                       !.gw = @ \o <<GatewayCall("get_sign_in_resource", None)>> ]]
  /\ activity' = ReadNothing
  /\ UNCHANGED << allowed_tenants, conversation_threads, remote_threads,
                  threads_created, turns, ever_authed >>

\* The sign-in resource arrived: the OAuth card is sent.
SendSignInCard(t) ==
  /\ EventLoopRuns
  /\ UNCHANGED << startup, thread_messages >>
  /\ tasks[t].pc = "sign_in_resource"
  /\ tasks' = [tasks EXCEPT ![t] =
       [ @ EXCEPT !.pc = "send", !.sent = @ \o <<"oauth_card">>,
                  !.status = "ok" ]]
  /\ activity' = ReadNothing
  /\ UNCHANGED << allowed_tenants, conversation_threads, remote_threads,
                  threads_created, turns, ever_authed >>

\* The lookup returned a token and the text is a reset command: the thread
\* of the conversation, if any, is deleted and the confirmation is sent.
MessageReset(t) ==
  /\ EventLoopRuns
  /\ UNCHANGED startup
  /\ tasks[t].pc = "get_token"
  /\ tasks[t].kind = "message"
  /\ \E resp \in { r \in TokenResponses : Authenticated(r, ever_authed) },
        text \in { x \in Texts : IsResetCommand(x) },
        deleted \in BOOLEAN :
       LET conv  == tasks[t].conv
           has   == conv \in DOMAIN conversation_threads
           store == IF has
                    THEN reset_store(conversation_threads, conv, deleted)
                    ELSE conversation_threads
       IN  /\ ~has => deleted
           /\ conversation_threads' = store
           /\ remote_threads' =
                IF has /\ deleted
                THEN remote_threads \ {conversation_threads[conv]}
                ELSE remote_threads
           /\ thread_messages' =
                IF has /\ deleted
                THEN [ id \in DOMAIN thread_messages
                              \ {conversation_threads[conv]} |->
                         thread_messages[id] ]
                ELSE thread_messages
           /\ tasks' = [tasks EXCEPT ![t] =
                [ @ EXCEPT !.pc = "send", !.tok = resp, !.path = "reset",
                           !.status = "ok",
                           !.outcome = IF ~has THEN "none"
                                       ELSE IF deleted THEN "deleted"
                                       ELSE "delete_raises",
                           !.ai = IF has THEN <<"threads.delete">> ELSE <<>>,
                           !.writes = IF store # conversation_threads
                                      THEN 1 ELSE 0,
                           !.sent = <<"reset_confirmation">> ]]
           /\ activity' = Read(t, "text", None, text, NoValue)
  /\ ever_authed' = TRUE
  /\ UNCHANGED << allowed_tenants, threads_created, turns >>

\* The lookup returned a token and the text is no command:
\* _process_message_with_agent runs up to the send_activity it ends in.
MessageRelay(t) ==
  /\ EventLoopRuns
  /\ UNCHANGED startup
  /\ tasks[t].pc = "get_token"
  /\ tasks[t].kind = "message"
  /\ \E resp \in { r \in TokenResponses : Authenticated(r, ever_authed) },
        text \in { x \in Texts : ~IsResetCommand(x) },
        o \in RelayOutcomes :
       LET conv    == tasks[t].conv
           fresh   == threads_created + 1
           created == needs_thread(conversation_threads, conv)
                        /\ o # "create_raises"
       IN  /\ o = "create_raises" => needs_thread(conversation_threads, conv)
           /\ \E r \in { process_message_with_agent(
                            conversation_threads, conv, fresh, o,
                            thread_messages) } :
                /\ conversation_threads' = r.store
                /\ remote_threads' =
                     IF created THEN remote_threads \cup {fresh} ELSE remote_threads
                /\ threads_created' = IF created THEN fresh ELSE threads_created
                /\ thread_messages' = r.threads
                /\ tasks' = [tasks EXCEPT ![t] =
                     [ @ EXCEPT !.pc = IF r.status = "raised" THEN "return" ELSE "send",
                                !.status = r.status, !.outcome = o,
                                !.thread_id = r.thread_id, !.asked = r.asked,
                                !.replied = r.replied,
                                !.tok = resp, !.path = "relay", !.ai = r.ai,
                                !.writes = IF r.store # conversation_threads
                                           THEN 1 ELSE 0,
                                !.sent = r.send ]]
                /\ activity' = Read(t, "text", None, text, NoValue)
  /\ ever_authed' = TRUE
  /\ UNCHANGED << allowed_tenants, turns >>

\* The Foundry calls of a relay turn, and the outcome that stands for each
\* of them being the last one the turn reaches.
FoundryCalls ==
  { "threads.create", "messages.create", "runs.create_and_process",
    "messages.list" }

ReachedOnly(call) ==
  CASE call = "threads.create"          -> "create_raises"
    [] call = "messages.create"         -> "add_raises"
    [] call = "runs.create_and_process" -> "run_raises"
    [] call = "messages.list"           -> "list_raises"

\* The lookup returned a token, the text is no command, and one of the
\* Foundry calls of _process_message_with_agent does not return: the turn
\* has done what comes before that call and stays inside it.
RelayHangs(t) ==
  /\ EventLoopRuns
  /\ UNCHANGED startup
  /\ tasks[t].pc = "get_token"
  /\ tasks[t].kind = "message"
  /\ \E resp \in { r \in TokenResponses : Authenticated(r, ever_authed) },
        text \in { x \in Texts : ~IsResetCommand(x) },
        call \in FoundryCalls :
       LET conv    == tasks[t].conv
           fresh   == threads_created + 1
           created == needs_thread(conversation_threads, conv)
                        /\ call # "threads.create"
       IN  /\ call = "threads.create" =>
                needs_thread(conversation_threads, conv)
           /\ \E r \in { process_message_with_agent(
                            conversation_threads, conv, fresh,
                            ReachedOnly(call), thread_messages) } :
                /\ conversation_threads' = r.store
                /\ remote_threads' =
                     IF created THEN remote_threads \cup {fresh} ELSE remote_threads
                /\ threads_created' = IF created THEN fresh ELSE threads_created
                /\ thread_messages' = r.threads
                /\ tasks' = [tasks EXCEPT ![t] =
                     [ @ EXCEPT !.pc = "hung", !.outcome = "hangs",
                                !.thread_id = r.thread_id, !.asked = r.asked,
                                !.tok = resp, !.path = "relay", !.ai = r.ai,
                                !.writes = IF r.store # conversation_threads
                                           THEN 1 ELSE 0 ]]
                /\ activity' = Read(t, "text", None, text, NoValue)
  /\ ever_authed' = TRUE
  /\ UNCHANGED << allowed_tenants, turns >>

\* The lookup of a message turn raised: _get_user_token has no handler
\* for it and on_message_activity has none either, so the exception
\* leaves the turn; nothing is sent.
TokenLookupRaises(t) ==
  /\ EventLoopRuns
  /\ UNCHANGED << startup, thread_messages >>
  /\ tasks[t].pc = "get_token"
  /\ tasks[t].kind = "message"
  /\ tasks' = [tasks EXCEPT ![t] =
       [ @ EXCEPT !.pc = "return", !.outcome = "get_token_raises",
                  !.status = "raised" ]]
  /\ activity' = ReadNothing
  /\ UNCHANGED << allowed_tenants, conversation_threads, remote_threads,
                  threads_created, turns, ever_authed >>

\* The send_activity a message turn ends in has completed: the handler
\* returns and the turn is over.
SendDone(t) ==
  /\ EventLoopRuns
  /\ UNCHANGED << startup, thread_messages >>
  /\ tasks[t].pc = "send"
  /\ tasks' = [tasks EXCEPT ![t] = IdleTask]
  /\ activity' = ReadNothing
  /\ UNCHANGED << allowed_tenants, conversation_threads, remote_threads,
                  threads_created, turns, ever_authed >>

(***************************************************************************)
(* on_sign_in_invoke                                                       *)
(***************************************************************************)
\* on_sign_in_invoke up to its first await: the token exchange, the
\* redemption of the magic code, or the base class, which the handler
\* returns the answer of without a call of its own.
sign_in_invoke(conv, name, req, value) ==
  LET route == sign_in_invoke_route(name)
      task  == [NewTask("invoke", conv) EXCEPT !.name = name]
  IN  IF route = "exchange"
      THEN [ task EXCEPT
               !.pc = "exchange", !.path = "exchange", !.request = req,
               !.gw = <<GatewayCall("exchange_token",
                                    exchange_connection(req))>> ]
      ELSE IF route = "verify"
      THEN [ task EXCEPT
               !.pc = "verify", !.path = "verify",
               !.gw = <<GatewayCall("get_token", magic_code(value))>> ]
      ELSE [ task EXCEPT !.pc = "return", !.path = "super",
                         !.status = "super" ]

\* A signin/tokenExchange invoke arrives: _handle_token_exchange parses
\* the request and awaits exchange_token.  on_sign_in_invoke does not
\* call _validate_tenant and never reads the tenant id.
ReceiveTokenExchange(t) ==
  /\ EventLoopRuns
  /\ UNCHANGED << startup, thread_messages >>
  /\ turns < MaxTurns
  /\ Free(t)
  /\ \E conv \in Convs, req \in ExchangeRequests :
       /\ tasks' = [tasks EXCEPT ![t] =
            sign_in_invoke(conv, TokenExchangeName, req, NoValue)]
       /\ activity' = ReadNothing
  /\ turns' = turns + 1
  /\ UNCHANGED << allowed_tenants, conversation_threads, remote_threads,
                  threads_created, ever_authed >>

\* exchange_token returned: the acknowledgement, or PRECONDITION_FAILED.
ExchangeReturned(t) ==
  /\ EventLoopRuns
  /\ UNCHANGED << startup, thread_messages >>
  /\ tasks[t].pc = "exchange"
  /\ \E resp \in TokenResponses :
       LET result == handle_token_exchange(tasks[t].request, resp)
       IN  /\ tasks' = [tasks EXCEPT ![t] =
                [ @ EXCEPT !.pc = "return", !.tok = resp,
                           !.status = IF result.present THEN "200" ELSE "412",
                           !.body = result ]]
           /\ ever_authed' = (ever_authed \/ result.present)
  /\ activity' = ReadNothing
  /\ UNCHANGED << allowed_tenants, conversation_threads, remote_threads,
                  threads_created, turns >>

\* A signin/verifyState invoke arrives: the magic code of its value is
\* handed to _get_user_token.
ReceiveVerifyState(t) ==
  /\ EventLoopRuns
  /\ UNCHANGED << startup, thread_messages >>
  /\ turns < MaxTurns
  /\ Free(t)
  /\ \E conv \in Convs, value \in VerifyValues :
       /\ tasks' = [tasks EXCEPT ![t] =
            sign_in_invoke(conv, VerifyStateName, NoRequest, value)]
       /\ activity' = Read(t, "value", None, <<>>, value)
  /\ turns' = turns + 1
  /\ UNCHANGED << allowed_tenants, conversation_threads, remote_threads,
                  threads_created, ever_authed >>

\* get_token returned for the magic code: an empty 200, or BAD_REQUEST.
VerifyReturned(t) ==
  /\ EventLoopRuns
  /\ UNCHANGED << startup, thread_messages >>
  /\ tasks[t].pc = "verify"
  /\ \E resp \in TokenResponses :
       /\ tasks' = [tasks EXCEPT ![t] =
            [ @ EXCEPT !.pc = "return", !.tok = resp,
                       !.status = verify_state_status(resp),
                       !.body = NoBody ]]
       /\ ever_authed' = (ever_authed \/ verify_state_status(resp) = "200")
  /\ activity' = ReadNothing
  /\ UNCHANGED << allowed_tenants, conversation_threads, remote_threads,
                  threads_created, turns >>

\* A sign-in invoke with another name arrives: on_sign_in_invoke hands it
\* to ActivityHandler.on_sign_in_invoke and returns what that returns.
ReceiveOtherInvoke(t) ==
  /\ EventLoopRuns
  /\ UNCHANGED << startup, thread_messages >>
  /\ turns < MaxTurns
  /\ Free(t)
  /\ \E conv \in Convs, name \in OtherInvokeNames :
       tasks' = [tasks EXCEPT ![t] =
         sign_in_invoke(conv, name, NoRequest, NoValue)]
  /\ activity' = ReadNothing
  /\ turns' = turns + 1
  /\ UNCHANGED << allowed_tenants, conversation_threads, remote_threads,
                  threads_created, ever_authed >>

(***************************************************************************)
(* on_members_added_activity                                               *)
(***************************************************************************)
\* The loop over members_added from the i-th member up to its next await:
\* the welcome of the next member that is not the bot is being sent, or
\* the list is through and the handler returns.
welcome_loop(task, i) ==
  LET j == NextWelcome(task.members, i)
  IN  IF j > Len(task.members)
      THEN [ task EXCEPT !.pc = "return", !.member = j, !.status = "ok" ]
      ELSE [ task EXCEPT !.pc = "welcome", !.member = j,
                         !.sent = @ \o <<"welcome">> ]

\* A conversation update with added members arrives.
ReceiveMembersAdded(t) ==
  /\ EventLoopRuns
  /\ UNCHANGED << startup, thread_messages >>
  /\ turns < MaxTurns
  /\ Free(t)
  /\ \E conv \in Convs, members \in MemberLists :
       tasks' = [tasks EXCEPT ![t] =
         welcome_loop([ NewTask("members_added", conv) EXCEPT
                          !.path = "welcome", !.members = members ], 1)]
  /\ activity' = ReadNothing
  /\ turns' = turns + 1
  /\ UNCHANGED << allowed_tenants, conversation_threads, remote_threads,
                  threads_created, ever_authed >>

\* The send_activity of a welcome has completed: the loop goes on.
WelcomeSent(t) ==
  /\ EventLoopRuns
  /\ UNCHANGED << startup, thread_messages >>
  /\ tasks[t].pc = "welcome"
  /\ tasks' = [tasks EXCEPT ![t] = welcome_loop(@, @.member + 1)]
  /\ activity' = ReadNothing
  /\ UNCHANGED << allowed_tenants, conversation_threads, remote_threads,
                  threads_created, turns, ever_authed >>

\* The handler has returned its invoke response or raised: the adapter
\* answers the HTTP request and the turn is over.
Respond(t) ==
  /\ EventLoopRuns
  /\ UNCHANGED << startup, thread_messages >>
  /\ tasks[t].pc = "return"
  /\ tasks' = [tasks EXCEPT ![t] = IdleTask]
  /\ activity' = ReadNothing
  /\ UNCHANGED << allowed_tenants, conversation_threads, remote_threads,
                  threads_created, turns, ever_authed >>

Next ==
  \E t \in Tasks :
    \/ ReceiveMessage(t)
    \/ MessageSignIn(t)
    \/ SendSignInCard(t)
    \/ MessageReset(t)
    \/ MessageRelay(t)
    \/ RelayHangs(t)
    \/ TokenLookupRaises(t)
    \/ SendDone(t)
    \/ ReceiveTokenExchange(t)
    \/ ExchangeReturned(t)
    \/ ReceiveVerifyState(t)
    \/ VerifyReturned(t)
    \/ ReceiveOtherInvoke(t)
    \/ ReceiveMembersAdded(t)
    \/ WelcomeSent(t)
    \/ Respond(t)

Spec == Init /\ [][Next]_vars

(***************************************************************************)
(* Vocabulary of the properties.                                           *)
(***************************************************************************)
\* A token lookup that returned a non-empty token.
NonEmptyToken(resp) == resp.present /\ resp.token # None /\ resp.token # ""

\* A conversation that carries no tenant id: the attribute is missing
\* (None) or empty.
NoTenantId(tenant_id) == tenant_id = None \/ tenant_id = ""

\* The task whose step was the last one, when that step read the given
\* field of its activity.
JustRead(t, field) == activity.task = t /\ activity.field = field

(***************************************************************************)
(* C1.  After an authenticated reset command has been handled, the session *)
(* store holds no thread handle for the conversation, whether or not the   *)
(* remote thread deletion succeeded.  Stated for the state the reset       *)
(* branch leaves behind, before any other task runs.  The code keeps the   *)
(* entry when threads.delete raises, so this does not hold.                *)
(***************************************************************************)
C1_ResetLeavesNoHandle ==
  \A t \in Tasks :
    (JustRead(t, "text") /\ tasks[t].path = "reset")
      => tasks[t].conv \notin DOMAIN conversation_threads

(***************************************************************************)
(* C2.  The tenant gate allows a message turn exactly when the allowlist   *)
(* is empty, or the conversation carries no tenant id, or the tenant id is *)
(* in the allowlist; it denies exactly when the allowlist is non-empty and *)
(* a tenant id is present and not in it.                                   *)
(***************************************************************************)
C2_TenantGate ==
  \A t \in Tasks :
    (JustRead(t, "tenant_id") /\ tasks[t].kind = "message") =>
      /\ tasks[t].gate \in {"allowed", "denied"}
      /\ tasks[t].gate = "allowed" <=>
           \/ allowed_tenants = {}
           \/ NoTenantId(activity.tenant_id)
           \/ activity.tenant_id \in allowed_tenants
      /\ tasks[t].gate = "denied" <=>
           /\ allowed_tenants # {}
           /\ ~NoTenantId(activity.tenant_id)
           /\ activity.tenant_id \notin allowed_tenants

\* C2 witness: with an allowlist set, a turn without a tenant id has just
\* been allowed, and in another slot a turn was denied.
C2_Witness ==
  \E t, u \in Tasks :
    /\ JustRead(t, "tenant_id")
    /\ allowed_tenants # {}
    /\ activity.tenant_id = None
    /\ tasks[t].gate = "allowed"
    /\ tasks[u].gate = "denied"

(***************************************************************************)
(* C3.  A message turn denied by the tenant gate sends exactly one         *)
(* activity, the denial, and stops: every step of it leaves the session    *)
(* store and the Foundry threads as they were, it makes no gateway call    *)
(* and no Foundry call, sends no sign-in card, and its only further step   *)
(* ends the turn.                                                          *)
(***************************************************************************)
C3_DeniedTurnStops ==
  [][ \A t \in Tasks :
        ( tasks'[t] # tasks[t]
          /\ (tasks[t].gate = "denied" \/ tasks'[t].gate = "denied") ) =>
          /\ conversation_threads' = conversation_threads
          /\ remote_threads' = remote_threads
          /\ threads_created' = threads_created
          /\ tasks'[t].gate = "denied" =>
               /\ tasks[t].pc = "idle"
               /\ tasks'[t].pc = "send"
               /\ tasks'[t].sent = <<"denial">>
               /\ tasks'[t].gw = <<>>
               /\ tasks'[t].ai = <<>>
               /\ tasks'[t].writes = 0
          /\ tasks[t].gate = "denied" => tasks'[t] = IdleTask
    ]_vars

\* C3 witness: a denied turn waits for its denial to be sent while the
\* store holds a thread of the same conversation.
C3_Witness ==
  \E t \in Tasks :
    /\ tasks[t].gate = "denied"
    /\ tasks[t].sent = <<"denial">>
    /\ tasks[t].conv \in DOMAIN conversation_threads

(***************************************************************************)
(* C4.  No Credential Gateway call is made in a turn unless the tenant     *)
(* gate has first allowed that turn, for message turns and sign-in invoke  *)
(* turns alike.  on_sign_in_invoke never runs the gate, so this does not   *)
(* hold.                                                                   *)
(***************************************************************************)
C4_GateBeforeGateway ==
  \A t \in Tasks : tasks[t].gw # <<>> => tasks[t].gate = "allowed"

(***************************************************************************)
(* C5.  A message turn that passed the tenant gate and whose token lookup  *)
(* returned no valid token sends exactly one activity, the OAuth card,     *)
(* makes no Foundry call and no change to the session store.               *)
(***************************************************************************)
C5_NoTokenSendsCard ==
  \A t \in Tasks :
    ( tasks[t].kind = "message" /\ tasks[t].gate = "allowed"
      /\ tasks[t].path # "none" /\ ~NonEmptyToken(tasks[t].tok) ) =>
      /\ tasks[t].path = "sign_in"
      /\ tasks[t].ai = <<>>
      /\ tasks[t].writes = 0
      /\ tasks[t].pc \in {"sign_in_resource", "send"}
      /\ tasks[t].pc = "sign_in_resource" => tasks[t].sent = <<>>
      /\ tasks[t].pc = "send" => tasks[t].sent = <<"oauth_card">>

\* C5 witness: two such turns of one conversation have each sent their
\* card, and the thread the conversation had is still in the store.
C5_Witness ==
  \E t, u \in Tasks :
    /\ t # u
    /\ tasks[t].conv = tasks[u].conv
    /\ tasks[t].path = "sign_in" /\ tasks[t].sent = <<"oauth_card">>
    /\ tasks[u].path = "sign_in" /\ tasks[u].sent = <<"oauth_card">>
    /\ tasks[t].tok = NoResponse
    /\ tasks[u].tok # NoResponse
    /\ tasks[t].conv \in DOMAIN conversation_threads

(***************************************************************************)
(* C6.  The authenticated state is not carried between turns: a message    *)
(* turn reaches the reset branch or the relay (any Foundry call, any store *)
(* write) only if its own token lookup returned a non-empty token, and a   *)
(* turn whose lookup returned none gets the sign-in card and no Foundry    *)
(* call also when an earlier turn had been signed in.                      *)
(***************************************************************************)
C6_AuthNotCarried ==
  \A t \in Tasks :
    tasks[t].kind = "message" =>
      /\ ( tasks[t].ai # <<>> \/ tasks[t].writes > 0
           \/ tasks[t].path \in {"reset", "relay"} )
           => NonEmptyToken(tasks[t].tok)
      /\ ( tasks[t].gate = "allowed" /\ tasks[t].path # "none"
           /\ ~NonEmptyToken(tasks[t].tok) ) =>
           /\ tasks[t].path = "sign_in"
           /\ tasks[t].ai = <<>>
           /\ tasks[t].pc = "send" => tasks[t].sent = <<"oauth_card">>
      /\ tasks[t].authed_before => ~NonEmptyToken(tasks[t].tok)

\* C6 witness: after an earlier turn had seen a token, a message turn whose
\* lookup returned nothing has sent the sign-in card.
C6_Witness ==
  \E t \in Tasks :
    /\ tasks[t].authed_before
    /\ tasks[t].tok = NoResponse
    /\ tasks[t].pc = "send"
    /\ tasks[t].sent = <<"oauth_card">>
    /\ tasks[t].conv \in DOMAIN conversation_threads

(***************************************************************************)
(* C7 as claimed.  A token-exchange invoke whose exchange returned a token *)
(* is answered 200 with the id and the connection name of the request; one *)
(* whose exchange returned no token fails with 412 and no body; the        *)
(* session store is unchanged.  The code answers with the configured       *)
(* connection name when the request names none, so this does not hold.     *)
(***************************************************************************)
C7_SameConnectionName ==
  [][ \A t \in Tasks :
        (tasks[t].pc = "exchange" /\ tasks'[t].pc = "return") =>
          /\ conversation_threads' = conversation_threads
          /\ NonEmptyToken(tasks'[t].tok) =>
               /\ tasks'[t].status = "200"
               /\ tasks'[t].body.present
               /\ tasks'[t].body.id = tasks[t].request.id
               /\ tasks'[t].body.connectionName
                    = tasks[t].request.connection_name
          /\ ~NonEmptyToken(tasks'[t].tok) =>
               /\ tasks'[t].status = "412"
               /\ ~tasks'[t].body.present
    ]_vars

(***************************************************************************)
(* C7 as amended.  The acknowledgement carries the id of the request and   *)
(* the request's connection name, or the configured OAuth connection name  *)
(* when the request names none; a failed exchange gives 412 and no body;   *)
(* the session store is unchanged in both cases.                           *)
(***************************************************************************)
C7_TokenExchange ==
  [][ \A t \in Tasks :
        (tasks[t].pc = "exchange" /\ tasks'[t].pc = "return") =>
          /\ conversation_threads' = conversation_threads
          /\ NonEmptyToken(tasks'[t].tok) =>
               /\ tasks'[t].status = "200"
               /\ tasks'[t].body.present
               /\ tasks'[t].body.id = tasks[t].request.id
               /\ tasks'[t].body.connectionName =
                    IF tasks[t].request.connection_name \in {None, ""}
                    THEN OAuthConnectionName
                    ELSE tasks[t].request.connection_name
          /\ ~NonEmptyToken(tasks'[t].tok) =>
               /\ tasks'[t].status = "412"
               /\ ~tasks'[t].body.present
    ]_vars

\* C7 witness: an exchange for a request naming no connection was
\* acknowledged with the configured name, another one failed with 412, and
\* the store holds a thread.
C7_Witness ==
  \E t, u \in Tasks :
    /\ tasks[t].pc = "return" /\ tasks[t].path = "exchange"
    /\ tasks[t].status = "200"
    /\ tasks[t].request.connection_name = None
    /\ tasks[t].body.connectionName = OAuthConnectionName
    /\ tasks[u].pc = "return" /\ tasks[u].path = "exchange"
    /\ tasks[u].status = "412"
    /\ conversation_threads # <<>>

(***************************************************************************)
(* C8.  A verify-state invoke redeems the magic code its value carries     *)
(* (none when the value or its state is missing); when the redemption      *)
(* returns a token the turn answers an empty 200, otherwise it fails with  *)
(* 400, and nothing else decides the outcome.                              *)
(***************************************************************************)
C8_VerifyState ==
  \A t \in Tasks :
    /\ JustRead(t, "value") =>
         tasks[t].gw =
           << [ op  |-> "get_token",
                arg |-> IF activity.value.present
                        THEN activity.value.state ELSE None ] >>
    /\ (tasks[t].path = "verify" /\ tasks[t].pc = "return") =>
         /\ ~tasks[t].body.present
         /\ NonEmptyToken(tasks[t].tok) <=> tasks[t].status = "200"
         /\ ~NonEmptyToken(tasks[t].tok) <=> tasks[t].status = "400"

\* C8 witness: one magic code was redeemed and answered 200, the
\* redemption of another returned an empty token and was answered 400.
C8_Witness ==
  \E t, u \in Tasks :
    /\ tasks[t].path = "verify" /\ tasks[t].status = "200"
    /\ tasks[t].gw = <<[op |-> "get_token", arg |-> "123456"]>>
    /\ tasks[u].path = "verify" /\ tasks[u].status = "400"
    /\ tasks[u].gw = <<[op |-> "get_token", arg |-> "123456"]>>
    /\ tasks[u].tok.present

(***************************************************************************)
(* C9.  An authenticated message is a reset command exactly when its text, *)
(* without the surrounding whitespace and without regard to case, is       *)
(* /reset, /clear or /new.  A reset command gets exactly the confirmation  *)
(* and makes no Foundry call but the deletion of the thread; every other   *)
(* authenticated message goes to the relay.                                *)
(***************************************************************************)
Blank == {" ", "\t", "\n"}

CasePairs ==
  { <<"R", "r">>, <<"E", "e">>, <<"S", "s">>, <<"T", "t">>, <<"C", "c">>,
    <<"L", "l">>, <<"A", "a">>, <<"N", "n">>, <<"W", "w">> }

SameLetter(a, b) == a = b \/ <<a, b>> \in CasePairs

\* text is word, in any case, between two runs of whitespace.
IsWord(text, word) ==
  \E i \in 0..Len(text) :
    /\ i + Len(word) <= Len(text)
    /\ \A k \in 1..i : text[k] \in Blank
    /\ \A k \in 1..Len(word) : SameLetter(text[i + k], word[k])
    /\ \A k \in (i + Len(word) + 1)..Len(text) : text[k] \in Blank

IsCommandText(text) ==
  \/ IsWord(text, <<"/", "r", "e", "s", "e", "t">>)
  \/ IsWord(text, <<"/", "c", "l", "e", "a", "r">>)
  \/ IsWord(text, <<"/", "n", "e", "w">>)

C9_ResetCommands ==
  \A t \in Tasks :
    JustRead(t, "text") =>
      /\ tasks[t].path \in {"reset", "relay"}
      /\ tasks[t].path = "reset" <=> IsCommandText(activity.text)
      /\ tasks[t].path = "reset" =>
           /\ tasks[t].sent = <<"reset_confirmation">>
           /\ tasks[t].ai \in {<<>>, <<"threads.delete">>}
           /\ tasks[t].writes = 1 =>
                tasks[t].conv \notin DOMAIN conversation_threads
      /\ tasks[t].path = "relay" =>
           /\ tasks[t].ai # <<>>
           /\ Head(tasks[t].ai) \in {"threads.create", "messages.create"}
           /\ tasks[t].sent # <<"reset_confirmation">>

\* C9 witness: a text in mixed case with whitespace around it was taken as
\* a reset command and deleted the thread of its conversation.
C9_Witness ==
  \E t \in Tasks :
    /\ JustRead(t, "text")
    /\ activity.text = <<" ", "/", "R", "e", "s", "e", "t", "\n">>
    /\ tasks[t].path = "reset"
    /\ tasks[t].ai = <<"threads.delete">>
    /\ tasks[t].writes = 1

(***************************************************************************)
(* C10.  When a Foundry call of the relay raises (thread creation, adding  *)
(* the message, the run, listing the messages), the turn sends exactly one *)
(* activity, the apology, the handler returns normally, and no Foundry     *)
(* call is made twice: the failed call is the last one of the turn.        *)
(***************************************************************************)
FailedCall(outcome) ==
  CASE outcome = "create_raises" -> "threads.create"
    [] outcome = "add_raises"    -> "messages.create"
    [] outcome = "run_raises"    -> "runs.create_and_process"
    [] outcome = "list_raises"   -> "messages.list"

C10_RelayFailureCaught ==
  \A t \in Tasks :
    ( tasks[t].path = "relay"
      /\ tasks[t].outcome \in
           {"create_raises", "add_raises", "run_raises", "list_raises"} ) =>
      /\ tasks[t].pc = "send"
      /\ tasks[t].status = "ok"
      /\ tasks[t].sent = <<"apology">>
      /\ tasks[t].ai # <<>>
      /\ tasks[t].ai[Len(tasks[t].ai)] = FailedCall(tasks[t].outcome)
      /\ \A i, j \in 1..Len(tasks[t].ai) :
           i # j => tasks[t].ai[i] # tasks[t].ai[j]

\* C10 witness: in turns of one conversation the thread was created, and
\* later listing the messages raised and the apology was sent.
C10_Witness ==
  \E t \in Tasks :
    /\ tasks[t].path = "relay"
    /\ tasks[t].outcome = "list_raises"
    /\ tasks[t].ai = <<"messages.create", "runs.create_and_process",
                       "messages.list">>
    /\ tasks[t].sent = <<"apology">>

(***************************************************************************)
(* C11.  When the token lookup of a message turn fails because the         *)
(* Credential Gateway cannot be reached, the turn goes on as if there were *)
(* no token: the failure does not leave the handler and the user is sent   *)
(* the sign-in card.  The code has no handler around get_token, so the     *)
(* exception ends the turn and nothing is sent: this does not hold.        *)
(***************************************************************************)
C11_LookupFailureIsNoToken ==
  \A t \in Tasks :
    ( tasks[t].kind = "message"
      /\ tasks[t].outcome = "get_token_raises" ) =>
      /\ tasks[t].status # "raised"
      /\ tasks[t].pc \in {"sign_in_resource", "send"}
      /\ tasks[t].pc = "send" => tasks[t].sent = <<"oauth_card">>

(***************************************************************************)
(* C12.  The store holds at most one handle per conversation id and a      *)
(* handle is created lazily: a handle appears for a conversation (or a new *)
(* one takes the place of the old) only in the step of a message turn of   *)
(* that conversation that passed the tenant gate, got a non-empty token    *)
(* and whose text is no reset command.  The steps of sign-in invokes, of   *)
(* members-added turns, of denied turns and of turns without a token never *)
(* add an entry.                                                           *)
(***************************************************************************)
C12_LazyCreation ==
  [][ /\ \A c \in Convs :
           ( c \in DOMAIN conversation_threads'
             /\ ( c \notin DOMAIN conversation_threads
                  \/ conversation_threads'[c] # conversation_threads[c] ) ) =>
             \E t \in Tasks :
               /\ tasks[t].pc = "get_token"
               /\ tasks[t].kind = "message"
               /\ tasks[t].conv = c
               /\ tasks[t].gate = "allowed"
               /\ tasks'[t].path = "relay"
               /\ NonEmptyToken(tasks'[t].tok)
               /\ activity'.task = t /\ activity'.field = "text"
               /\ ~IsCommandText(activity'.text)
      /\ DOMAIN conversation_threads' \subseteq Convs
      /\ \A t \in Tasks :
           ( tasks'[t] # tasks[t]
             /\ ( {tasks[t].kind, tasks'[t].kind} \ {"none", "message"} # {}
                  \/ tasks'[t].gate = "denied" \/ tasks[t].gate = "denied"
                  \/ tasks'[t].path = "sign_in" \/ tasks[t].path = "sign_in" ) )
             => DOMAIN conversation_threads' \subseteq DOMAIN conversation_threads
    ]_vars

\* C12 witness: a relay turn has just put the first handle of its
\* conversation into the store while a sign-in invoke of the other
\* conversation, which has none, is being answered.
C12_Witness ==
  \E t, u \in Tasks :
    /\ JustRead(t, "text")
    /\ tasks[t].path = "relay"
    /\ tasks[t].writes = 1
    /\ DOMAIN conversation_threads = {tasks[t].conv}
    /\ tasks[u].kind = "invoke"
    /\ tasks[u].pc = "return"
    /\ tasks[u].conv # tasks[t].conv

(***************************************************************************)
(* C13.  When a Foundry call of a relay turn raises, the session store is  *)
(* left as it was when the call failed: every handle the store held before *)
(* the turn is still there and unchanged, a turn whose thread creation     *)
(* raised leaves its conversation without a handle, and a thread the turn  *)
(* had created before the failing call keeps its handle.                   *)
(***************************************************************************)
C13_FailureLeavesStore ==
  [][ \A t \in Tasks :
        ( tasks[t].pc = "get_token" /\ tasks'[t].path = "relay"
          /\ tasks'[t].outcome \in
               {"create_raises", "add_raises", "run_raises", "list_raises"} ) =>
          LET conv == tasks[t].conv
          IN  /\ \A c \in DOMAIN conversation_threads :
                   /\ c \in DOMAIN conversation_threads'
                   /\ conversation_threads'[c] = conversation_threads[c]
              /\ DOMAIN conversation_threads' \subseteq
                   DOMAIN conversation_threads \cup {conv}
              /\ tasks'[t].outcome = "create_raises" =>
                   conv \notin DOMAIN conversation_threads'
              /\ ( conv \notin DOMAIN conversation_threads
                   /\ tasks'[t].outcome # "create_raises" ) =>
                   /\ conv \in DOMAIN conversation_threads'
                   /\ conversation_threads'[conv] \in remote_threads'
    ]_vars

\* C13 witness: adding the message raised in a turn of a conversation that
\* had its thread, and creating the thread raised in a turn of the other
\* conversation; the first still has its handle, the second has none.
C13_Witness ==
  \E t, u \in Tasks :
    /\ tasks[t].path = "relay" /\ tasks[t].outcome = "add_raises"
    /\ tasks[t].ai = <<"messages.create">>
    /\ tasks[t].conv \in DOMAIN conversation_threads
    /\ tasks[u].path = "relay" /\ tasks[u].outcome = "create_raises"
    /\ tasks[u].conv \notin DOMAIN conversation_threads

(***************************************************************************)
(* C14.  Turns of different conversations are independent tasks: while a   *)
(* Foundry call of one conversation's turn hangs, only that turn is        *)
(* stalled; a turn of another conversation that is under way can take its  *)
(* next step, and one that arrives is taken up.  Stated as what is enabled *)
(* in a state with a hanging call.  The Foundry calls are synchronous      *)
(* calls made on the event loop's thread, so a hanging call stalls every   *)
(* turn: this does not hold.                                               *)
(***************************************************************************)
TurnStep(u) ==
  \/ MessageSignIn(u) \/ SendSignInCard(u) \/ MessageReset(u)
  \/ MessageRelay(u) \/ TokenLookupRaises(u) \/ SendDone(u)
  \/ ExchangeReturned(u) \/ VerifyReturned(u) \/ WelcomeSent(u)
  \/ Respond(u)

TurnArrives(u) ==
  \/ ReceiveMessage(u) \/ ReceiveTokenExchange(u) \/ ReceiveVerifyState(u)
  \/ ReceiveOtherInvoke(u) \/ ReceiveMembersAdded(u)

C14_HangStallsOneTurn ==
  \A t, u \in Tasks :
    (tasks[t].pc = "hung" /\ u # t /\ tasks[u].pc # "hung") =>
      /\ ( tasks[u].pc # "idle" /\ tasks[u].conv # tasks[t].conv )
           => ENABLED TurnStep(u)
      /\ ( tasks[u].pc = "idle" /\ turns < MaxTurns )
           => ENABLED TurnArrives(u)

(***************************************************************************)
(* C15.  A members-added turn sends the welcome once for every added       *)
(* member whose id is not the bot's recipient id and not for the bot       *)
(* itself, and changes no state: in all its steps the session store and    *)
(* the Foundry threads stay as they are, and it makes no Credential        *)
(* Gateway call and no Foundry call.                                       *)
(***************************************************************************)
C15_MembersAdded ==
  [][ \A t \in Tasks :
        ( tasks'[t] # tasks[t]
          /\ "members_added" \in {tasks[t].kind, tasks'[t].kind} ) =>
          /\ conversation_threads' = conversation_threads
          /\ remote_threads' = remote_threads
          /\ threads_created' = threads_created
          /\ tasks'[t].kind = "members_added" =>
               /\ tasks'[t].gw = <<>>
               /\ tasks'[t].ai = <<>>
               /\ tasks'[t].writes = 0
               /\ \A i \in DOMAIN tasks'[t].sent : tasks'[t].sent[i] = "welcome"
               /\ Len(tasks'[t].sent) =
                    Cardinality({ i \in 1..Len(tasks'[t].members) :
                                    /\ tasks'[t].members[i] # BotId
                                    /\ \/ tasks'[t].pc = "return"
                                       \/ i <= tasks'[t].member })
               /\ tasks'[t].pc = "welcome" =>
                    tasks'[t].members[tasks'[t].member] # BotId
    ]_vars

\* C15 witness: of three added members, the bot among them, the two others
\* were welcomed, while the store holds a thread of the conversation.
C15_Witness ==
  \E t \in Tasks :
    /\ tasks[t].kind = "members_added"
    /\ tasks[t].pc = "return"
    /\ tasks[t].members = <<"u1", "bot", "u2">>
    /\ tasks[t].sent = <<"welcome", "welcome">>
    /\ tasks[t].conv \in DOMAIN conversation_threads

(***************************************************************************)
(* C16.  A sign-in invoke whose name is neither token-exchange nor         *)
(* verify-state is handed to the base class: the handler makes no          *)
(* Credential Gateway call, raises neither 412 nor 400 of its own, and     *)
(* leaves the session store as it is.                                      *)
(***************************************************************************)
C16_OtherInvokeToBaseClass ==
  [][ \A t \in Tasks :
        ( tasks[t].pc = "idle" /\ tasks'[t].kind = "invoke"
          /\ tasks'[t].name \notin {"signin/tokenExchange",
                                    "signin/verifyState"} ) =>
          /\ tasks'[t].gw = <<>>
          /\ tasks'[t].status = "super"
          /\ tasks'[t].status \notin {"412", "400"}
          /\ tasks'[t].pc = "return"
          /\ tasks'[t].ai = <<>>
          /\ tasks'[t].sent = <<>>
          /\ conversation_threads' = conversation_threads
          /\ remote_threads' = remote_threads
    ]_vars

\* C16 witness: an invoke named signin/failure of a conversation that has a
\* thread was answered by the base class.
C16_Witness ==
  \E t \in Tasks :
    /\ tasks[t].kind = "invoke"
    /\ tasks[t].name = "signin/failure"
    /\ tasks[t].pc = "return"
    /\ tasks[t].status = "super"
    /\ tasks[t].gw = <<>>
    /\ tasks[t].conv \in DOMAIN conversation_threads

(***************************************************************************)
(* Vocabulary of C17: the required variables and when one is missing.      *)
(***************************************************************************)
\* A value that is unset or the empty string.
UnsetOrEmpty(value) == ~value.set \/ value.val = <<>>

\* A string of whitespace only.
BlankStr(value) ==
  value.set /\ value.val # <<>> /\ \A i \in 1..Len(value.val) : value.val[i] \in Blank

\* A variable with two names is missing when both are unset or empty.
MissingAppId(environ) ==
  UnsetOrEmpty(environ.BOTSERVICE_APP_ID) /\ UnsetOrEmpty(environ.MicrosoftAppId)

MissingConnectionName(environ) ==
  /\ UnsetOrEmpty(environ.OAUTH_CONNECTION_NAME)
  /\ UnsetOrEmpty(environ.AZUREBOTOAUTHCONNECTIONNAME)

\* The errors that name a required variable that is missing.
MissingErrors(environ) ==
  (IF MissingAppId(environ) THEN {AppIdError} ELSE {})
  \cup (IF MissingConnectionName(environ) THEN {ConnectionNameError} ELSE {})
  \cup (IF UnsetOrEmpty(environ.AZURE_OPENAI_ENDPOINT)
        THEN {EndpointError} ELSE {})
  \cup (IF UnsetOrEmpty(environ.AZURE_OPENAI_API_KEY)
        THEN {ApiKeyError} ELSE {})
  \cup (IF UnsetOrEmpty(environ.AZURE_OPENAI_DEPLOYMENT_NAME)
        THEN {DeploymentError} ELSE {})

\* A variable read with _env has no usable value also when the first of
\* its names that is set and not empty holds whitespace only.
NoAppId(environ) ==
  \/ MissingAppId(environ)
  \/ BlankStr(environ.BOTSERVICE_APP_ID)
  \/ UnsetOrEmpty(environ.BOTSERVICE_APP_ID) /\ BlankStr(environ.MicrosoftAppId)

NoConnectionName(environ) ==
  \/ MissingConnectionName(environ)
  \/ BlankStr(environ.OAUTH_CONNECTION_NAME)
  \/ /\ UnsetOrEmpty(environ.OAUTH_CONNECTION_NAME)
     /\ BlankStr(environ.AZUREBOTOAUTHCONNECTIONNAME)

\* PORT is unset or a number.
PortIsNumber(environ) ==
  \/ ~environ.PORT.set
  \/ /\ environ.PORT.val # <<>>
     /\ \A i \in 1..Len(environ.PORT.val) : environ.PORT.val[i] \in Digits

\* The first check of build_settings, in the order of its checks, that a
\* variable fails.
FirstError(environ) ==
  IF NoAppId(environ) THEN AppIdError
  ELSE IF NoConnectionName(environ) THEN ConnectionNameError
  ELSE IF UnsetOrEmpty(environ.AZURE_OPENAI_ENDPOINT) THEN EndpointError
  ELSE IF UnsetOrEmpty(environ.AZURE_OPENAI_API_KEY) THEN ApiKeyError
  ELSE DeploymentError

(***************************************************************************)
(* C17 as claimed.  Whenever a required variable is unset or empty,        *)
(* build_settings raises an error that names that variable, nothing is     *)
(* created and the server never listens.  With two variables missing the   *)
(* error names only the first, and a PORT that is no number raises before  *)
(* any variable is looked at, so this does not hold.                       *)
(***************************************************************************)
C17_ErrorNamesEachMissing ==
  startup.pc \notin {"main", "serving"} =>
    \A e \in MissingErrors(startup.environ) :
      /\ startup.pc = "failed"
      /\ startup.error = e
      /\ startup.created = {}
      /\ ~startup.listening

(***************************************************************************)
(* C17 as amended.  Whenever a required variable is unset or empty,        *)
(* startup fails in build_settings: nothing is created and the server      *)
(* never listens.  If PORT is unset or a number the error names the first  *)
(* variable without a usable value in the order bot app id, OAuth          *)
(* connection name, endpoint, key, deployment; otherwise it is the         *)
(* ValueError of int().                                                    *)
(***************************************************************************)
C17_FailFast ==
  ( startup.pc \notin {"main", "serving"}
    /\ MissingErrors(startup.environ) # {} ) =>
      /\ startup.pc = "failed"
      /\ startup.created = {}
      /\ ~startup.listening
      /\ startup.error =
           IF PortIsNumber(startup.environ)
           THEN FirstError(startup.environ)
           ELSE PortError

\* C17 witness: with the app id given under its second name, the key and
\* the deployment both missing, startup failed naming the key.
C17_Witness ==
  /\ startup.pc = "failed"
  /\ ~startup.environ.BOTSERVICE_APP_ID.set
  /\ startup.environ.MicrosoftAppId.set
  /\ ~startup.environ.AZURE_OPENAI_API_KEY.set
  /\ startup.environ.AZURE_OPENAI_DEPLOYMENT_NAME = Str(<<>>)
  /\ startup.error = ApiKeyError
  /\ startup.created = {}

(***************************************************************************)
(* C18.  On a reset the thread is deleted at the service first and its     *)
(* entry leaves the store only when that deletion returned.  So in every   *)
(* state each handle in the store is a thread that was created and not     *)
(* successfully deleted, and every such thread is the handle of some       *)
(* conversation.                                                           *)
(***************************************************************************)
C18_HandlesAreLiveThreads ==
  /\ \A c \in DOMAIN conversation_threads :
       conversation_threads[c] \in remote_threads
  /\ \A id \in remote_threads :
       \E c \in DOMAIN conversation_threads : conversation_threads[c] = id
  /\ remote_threads \subseteq 1..threads_created
  /\ \A t \in Tasks :
       (tasks[t].path = "reset" /\ tasks[t].writes = 1) =>
         /\ tasks[t].outcome = "deleted"
         /\ tasks[t].ai = <<"threads.delete">>

\* C18 witness: both conversations have a thread, and in a reset of one of
\* them the deletion has just raised: it keeps its handle and the thread
\* is still alive.
C18_Witness ==
  \E t \in Tasks :
    /\ JustRead(t, "text")
    /\ tasks[t].path = "reset"
    /\ tasks[t].outcome = "delete_raises"
    /\ DOMAIN conversation_threads = Convs
    /\ remote_threads = {1, 2}
    /\ conversation_threads[tasks[t].conv] \in remote_threads

(***************************************************************************)
(* C19.  A relay turn makes its Foundry calls in one order and each at     *)
(* most once: the thread is created if the conversation has none, the      *)
(* message is added, one run is started, and the messages are listed and   *)
(* a reply is sent only when the run did not end as failed.  No run is     *)
(* started when adding the message raised.  A first turn of a conversation *)
(* in which nothing fails ends with one handle, one run and one reply.     *)
(***************************************************************************)
RelayOrder ==
  << "threads.create", "messages.create", "runs.create_and_process",
     "messages.list" >>

IsPrefix(s, full) == Len(s) <= Len(full) /\ s = SubSeq(full, 1, Len(s))

Calls(t, call) == Cardinality({i \in DOMAIN tasks[t].ai : tasks[t].ai[i] = call})

C19_RelayOrder ==
  \A t \in Tasks :
    tasks[t].path = "relay" =>
      /\ \/ IsPrefix(tasks[t].ai, RelayOrder)
         \/ IsPrefix(tasks[t].ai, Tail(RelayOrder))
      /\ \A call \in FoundryCalls : Calls(t, call) <= 1
      /\ Calls(t, "threads.delete") = 0
      /\ Len(tasks[t].sent) <= 1
      /\ tasks[t].outcome \in {"create_raises", "add_raises"} =>
           Calls(t, "runs.create_and_process") = 0
      /\ tasks[t].outcome \in {"run_failed", "run_raises"} =>
           /\ Calls(t, "runs.create_and_process") = 1
           /\ Calls(t, "messages.list") = 0
           /\ tasks[t].sent \notin {<<"response">>, <<"no_response">>}
      /\ tasks[t].outcome = "run_failed" => tasks[t].sent = <<"run_failed">>
      /\ tasks[t].sent \in {<<"response">>, <<"no_response">>} =>
           /\ tasks[t].outcome \in {"text", "no_text", "no_message"}
           /\ tasks[t].ai[Len(tasks[t].ai)] = "messages.list"
      /\ ( JustRead(t, "text") /\ tasks[t].outcome = "text"
           /\ Calls(t, "threads.create") = 1 ) =>
           /\ tasks[t].conv \in DOMAIN conversation_threads
           /\ tasks[t].writes = 1
           /\ tasks[t].ai = RelayOrder
           /\ tasks[t].sent = <<"response">>

\* C19 witness: the first turn of a conversation went through, and in the
\* next turn of the same conversation the run ended as failed.
C19_Witness ==
  \E t, u \in Tasks :
    /\ tasks[t].path = "relay" /\ tasks[t].outcome = "text"
    /\ tasks[t].ai = RelayOrder
    /\ tasks[t].sent = <<"response">>
    /\ tasks[u].path = "relay" /\ tasks[u].outcome = "run_failed"
    /\ tasks[u].conv = tasks[t].conv
    /\ tasks[u].ai = <<"messages.create", "runs.create_and_process">>
    /\ tasks[u].sent = <<"run_failed">>

(***************************************************************************)
(* C20.  However the turns of one conversation interleave, at most one     *)
(* thread is created for it between two successful resets: a thread is     *)
(* created only in a relay step of a conversation that has no handle, and  *)
(* becomes its handle in the same step; no handle is ever overwritten; a   *)
(* handle leaves the store only in a reset whose deletion returned.  Two   *)
(* first messages under way at once do not both create a thread.           *)
(***************************************************************************)
C20_OneThreadPerConversation ==
  [][ /\ \A c \in DOMAIN conversation_threads :
           c \in DOMAIN conversation_threads' =>
             conversation_threads'[c] = conversation_threads[c]
      /\ \A c \in DOMAIN conversation_threads \ DOMAIN conversation_threads' :
           /\ conversation_threads[c] \notin remote_threads'
           /\ \E t \in Tasks :
                /\ tasks[t].conv = c
                /\ tasks'[t].path = "reset"
                /\ tasks'[t].outcome = "deleted"
      /\ (threads_created' # threads_created \/ remote_threads' \ remote_threads # {}) =>
           \E t \in Tasks :
             /\ tasks[t].pc = "get_token"
             /\ tasks'[t].path = "relay"
             /\ tasks'[t].ai[1] = "threads.create"
             /\ tasks[t].conv \notin DOMAIN conversation_threads
             /\ threads_created' = threads_created + 1
             /\ remote_threads' = remote_threads \cup {threads_created'}
             /\ conversation_threads' =
                  (tasks[t].conv :> threads_created') @@ conversation_threads
      /\ \A t \in Tasks :
           ( tasks[t].pc = "get_token" /\ tasks'[t].path = "relay"
             /\ tasks[t].conv \in DOMAIN conversation_threads ) =>
             /\ threads_created' = threads_created
             /\ remote_threads' = remote_threads
             /\ \A i \in DOMAIN tasks'[t].ai : tasks'[t].ai[i] # "threads.create"
    ]_vars

\* C20 witness: two first messages of one conversation were under way at
\* once; the one that ran first created the thread, the other one used it.
C20_Witness ==
  \E t, u \in Tasks :
    /\ tasks[t].conv = tasks[u].conv
    /\ tasks[t].path = "relay" /\ tasks[t].pc = "send"
    /\ tasks[u].path = "relay" /\ tasks[u].pc = "send"
    /\ tasks[t].ai[1] = "threads.create"
    /\ tasks[u].ai[1] = "messages.create"
    /\ threads_created = 1
    /\ turns = 2

(***************************************************************************)
(* C21: the text sent as the reply of a relay turn is the assistant        *)
(* message that the turn's own run produced for the turn's user message:   *)
(* it stands in the thread after the message the turn added, never before  *)
(* it.  The listing loop of the handler does not stop at the turn's user   *)
(* message: when the run ended without an assistant text it goes on to the *)
(* messages of earlier turns and sends the newest text it finds there.     *)
(***************************************************************************)
C21_ReplyIsThisTurnsResponse ==
  \A t \in Tasks :
    ( tasks[t].path = "relay" /\ tasks[t].sent = <<"response">> ) =>
      /\ tasks[t].outcome = "text"
      /\ tasks[t].asked > 0
      /\ tasks[t].replied > tasks[t].asked

(***************************************************************************)
(* C22: conversations are isolated in the session store.  A step of a      *)
(* turn of conversation A leaves the entry of every other conversation B   *)
(* as it is: none is added, removed or changed; the store changes only in  *)
(* steps of turns.  A relay turn of A works on the thread whose handle is  *)
(* stored under A: the handle that was there when there was one, and no    *)
(* other thread gets or loses a message by it.                             *)
(***************************************************************************)
HandleOf(store, conv) == IF conv \in DOMAIN store THEN store[conv] ELSE 0

\* The conversation of the turn that task t is handling in this step.
TurnConv(t) == IF tasks[t].pc = "idle" THEN tasks'[t].conv ELSE tasks[t].conv

C22_ConversationsIsolated ==
  [][ /\ conversation_threads' # conversation_threads =>
           \E t \in Tasks : tasks'[t] # tasks[t]
      /\ \A t \in Tasks :
           tasks'[t] # tasks[t] =>
             /\ \A b \in Convs \ {TurnConv(t)} :
                  HandleOf(conversation_threads', b)
                    = HandleOf(conversation_threads, b)
             /\ ( tasks[t].pc = "get_token" /\ tasks'[t].path = "relay"
                  /\ tasks'[t].thread_id # 0 ) =>
                  /\ tasks'[t].thread_id
                       = HandleOf(conversation_threads', tasks[t].conv)
                  /\ tasks[t].conv \in DOMAIN conversation_threads =>
                       tasks'[t].thread_id
                         = conversation_threads[tasks[t].conv]
                  /\ \A b \in Convs \ {tasks[t].conv} :
                       tasks'[t].thread_id
                         # HandleOf(conversation_threads, b)
                  /\ \A id \in DOMAIN thread_messages
                                \ {tasks'[t].thread_id} :
                       /\ id \in DOMAIN thread_messages'
                       /\ thread_messages'[id] = thread_messages[id]
    ]_vars

\* C22 witness: a reset of one conversation has removed its handle while
\* a relay turn of the other conversation is answering from its own
\* thread, whose handle is still stored.
C22_Witness ==
  \E t, u \in Tasks :
    /\ tasks[t].conv # tasks[u].conv
    /\ tasks[t].path = "reset" /\ tasks[t].outcome = "deleted"
    /\ tasks[t].conv \notin DOMAIN conversation_threads
    /\ tasks[u].path = "relay" /\ tasks[u].pc = "send"
    /\ tasks[u].conv \in DOMAIN conversation_threads
    /\ tasks[u].thread_id = conversation_threads[tasks[u].conv]
    /\ tasks[u].thread_id \in DOMAIN thread_messages

(***************************************************************************)
(* C23: started in an environment in which build_settings finds every      *)
(* variable it requires, the process completes its startup: create_app     *)
(* constructs the agent and the server listens.  _build_agent calls        *)
(* AgentSettings with keywords that are not the fields it declares, so     *)
(* the construction raises and the server never listens.                   *)
(***************************************************************************)
C23_CompleteEnvironmentServes ==
  ( /\ ~build_settings(startup.environ).raised
    /\ startup.pc \notin {"main", "built"} ) =>
      /\ startup.pc = "serving"
      /\ startup.error = None
      /\ "agent" \in startup.created
      /\ startup.listening

====
